---- MODULE Spec2Model ----
(***************************************************************************)
(* Model of Simplex.py: simplex_max(A, b, c), the tableau Simplex method   *)
(* for  max c^T x  s.t.  A x <= b, x >= 0, b >= 0.                         *)
(*                                                                         *)
(* Numbers.  The program computes with Python floats.  A float is modelled *)
(* as an exact rational [n, d] in lowest terms (d > 0), and math.inf as    *)
(* [n |-> 1, d |-> 0].  Rounding of the float operations (relative error   *)
(* 2^-53) is not modelled; the tolerances of the program (1e-12 in the     *)
(* selection tests, 1e-9 in approx_zero) are modelled exactly.  Tests      *)
(* against 1e-12 are evaluated in multi-limb integer arithmetic (radix     *)
(* 10000), because the cross products do not fit a machine integer.        *)
(*                                                                         *)
(* Indices.  Row and column indices stored in the state (basis, entering,  *)
(* leaving) are the program's 0-based values; sequences are 1-based, so    *)
(* the model reads tableau[i + 1][j + 1] for the program's tableau[i][j].  *)
(*                                                                         *)
(* None is modelled as the empty sequence and a present value v as <<v>>.  *)
(***************************************************************************)
EXTENDS Integers, Sequences, FiniteSets, TLC

\* A, b, c      the arguments of simplex_max
\* pc           "start" at the call, "loop" at the head of the while loop,
\*              "done" after a return
\* tableau, basis, iterations, entering, ratios, eligibles, leaving, pivot
\*              the locals of simplex_max (unset locals are <<>>)
\* result       None, or Some(the SimplexResult returned)
\* pivots       history: the number of pivots executed (lines 113-124)
VARIABLES A, b, c, pc, tableau, basis, iterations, entering, ratios,
          eligibles, leaving, pivot, result, pivots

vars == <<A, b, c, pc, tableau, basis, iterations, entering, ratios,
          eligibles, leaving, pivot, result, pivots>>

(***************************************************************************)
(* Bounds of the model.                                                    *)
(***************************************************************************)
MaxM == 2

MaxN == 2

MaxCells == 4

MaxIter == 6

(***************************************************************************)
(* Program constants.                                                      *)
(***************************************************************************)
\* 1e-12, the tolerance of the selection tests, is 10000^(-EpsLimbs).
EpsLimbs == 3

\* 1e-9, the default eps of approx_zero, is 1 / ApproxZeroScale.
ApproxZeroScale == 1000000000

(***************************************************************************)
(* Exact rationals for the float values.                                   *)
(***************************************************************************)
Abs(k) == IF k < 0 THEN -k ELSE k

RECURSIVE Gcd(_, _)
Gcd(x, y) == IF y = 0 THEN x ELSE Gcd(y, x % y)

R(num, den) ==
  LET s == IF den < 0 THEN -1 ELSE 1
      g == Gcd(Abs(num), Abs(den))
  IN  [n |-> (s * num) \div g, d |-> (s * den) \div g]

Zero == [n |-> 0, d |-> 1]

One == [n |-> 1, d |-> 1]

Inf == [n |-> 1, d |-> 0]

None == <<>>

Some(v) == <<v>>

RNeg(x) == [n |-> -x.n, d |-> x.d]

RAdd(x, y) ==
  LET g == Gcd(x.d, y.d)
  IN  R(x.n * (y.d \div g) + y.n * (x.d \div g), (x.d \div g) * y.d)

RSub(x, y) == RAdd(x, RNeg(y))

RMul(x, y) ==
  LET g1 == Gcd(Abs(x.n), y.d)
      g2 == Gcd(Abs(y.n), x.d)
  IN  IF x.n = 0 \/ y.n = 0 THEN Zero
      ELSE R((x.n \div g1) * (y.n \div g2), (x.d \div g2) * (y.d \div g1))

RDiv(x, y) == RMul(x, R(y.d, y.n))

(***************************************************************************)
(* Multi-limb naturals (little endian, radix 10000, no leading zero limb), *)
(* used only to compare rationals without overflow.                        *)
(***************************************************************************)
RECURSIVE ToBig(_)
ToBig(k) == IF k = 0 THEN <<>> ELSE <<k % 10000>> \o ToBig(k \div 10000)

RECURSIVE Strip(_)
Strip(x) ==
  IF x # <<>> /\ x[Len(x)] = 0 THEN Strip(SubSeq(x, 1, Len(x) - 1)) ELSE x

RECURSIVE AddC(_, _, _)
AddC(x, y, carry) ==
  IF x = <<>> /\ y = <<>>
  THEN IF carry = 0 THEN <<>> ELSE <<carry>>
  ELSE LET s == (IF x = <<>> THEN 0 ELSE x[1]) + (IF y = <<>> THEN 0 ELSE y[1]) + carry
       IN  <<s % 10000>> \o AddC(IF x = <<>> THEN <<>> ELSE Tail(x),
                                 IF y = <<>> THEN <<>> ELSE Tail(y),
                                 s \div 10000)

BigAdd(x, y) == AddC(x, y, 0)

RECURSIVE SubB(_, _, _)
SubB(x, y, borrow) ==
  IF x = <<>> THEN <<>>
  ELSE LET s == x[1] - (IF y = <<>> THEN 0 ELSE y[1]) - borrow
       IN  <<IF s < 0 THEN s + 10000 ELSE s>>
             \o SubB(Tail(x), IF y = <<>> THEN <<>> ELSE Tail(y),
                     IF s < 0 THEN 1 ELSE 0)

\* x - y for x >= y
BigSub(x, y) == Strip(SubB(x, y, 0))

RECURSIVE MulLimb(_, _, _)
MulLimb(x, limb, carry) ==
  IF x = <<>>
  THEN IF carry = 0 THEN <<>> ELSE <<carry>>
  ELSE LET p == x[1] * limb + carry
       IN  <<p % 10000>> \o MulLimb(Tail(x), limb, p \div 10000)

RECURSIVE MulRec(_, _)
MulRec(x, y) ==
  IF y = <<>> THEN <<>>
  ELSE BigAdd(MulLimb(x, y[1], 0), <<0>> \o MulRec(x, Tail(y)))

BigMul(x, y) == Strip(MulRec(x, y))

BigLess(x, y) ==
  \/ Len(x) < Len(y)
  \/ /\ Len(x) = Len(y)
     /\ \E i \in 1..Len(x) :
          /\ x[i] < y[i]
          /\ \A j \in (i + 1)..Len(x) : x[j] = y[j]

ShiftLimbs(x, k) == IF x = <<>> THEN <<>> ELSE [i \in 1..k |-> 0] \o x

\* The numerator of x - y over the common denominator x.d * y.d, as a sign
\* and a magnitude, and that denominator.
WideDiff(x, y) ==
  LET X == BigMul(ToBig(Abs(x.n)), ToBig(y.d))
      Y == BigMul(ToBig(Abs(y.n)), ToBig(x.d))
      D == BigMul(ToBig(x.d), ToBig(y.d))
      xneg == x.n < 0
      yneg == y.n < 0
  IN  IF xneg # yneg \/ X = <<>> \/ Y = <<>>
      THEN \* x - y = +-(|X| + |Y|), with the sign of x, or of -y when x = 0
           [sign |-> IF X = <<>> /\ Y = <<>> THEN 0
                     ELSE IF X # <<>> THEN (IF xneg THEN -1 ELSE 1)
                     ELSE (IF yneg THEN 1 ELSE -1),
            mag |-> BigAdd(X, Y), den |-> D]
      ELSE IF X = Y THEN [sign |-> 0, mag |-> <<>>, den |-> D]
      ELSE IF BigLess(Y, X)
           THEN [sign |-> IF xneg THEN -1 ELSE 1, mag |-> BigSub(X, Y), den |-> D]
           ELSE [sign |-> IF xneg THEN 1 ELSE -1, mag |-> BigSub(Y, X), den |-> D]

\* Both fields of x are below 2^15, so that the cross products of two such
\* values fit a machine integer and their common denominator is below 1e12.
Narrow(x) == Abs(x.n) < 32768 /\ x.d < 32768

\* x < y, for floats x and y of which at most one is inf
RLess(x, y) ==
  IF x.d = 0 THEN FALSE
  ELSE IF y.d = 0 THEN TRUE
  ELSE IF Narrow(x) /\ Narrow(y) THEN x.n * y.d < y.n * x.d
  ELSE WideDiff(y, x).sign = 1

RLeq(x, y) == ~RLess(y, x)

\* x - y > 1e-12; inf - 1e-12 is inf, and no float exceeds inf.  For narrow
\* x and y a positive difference is at least 1 / (x.d * y.d) > 1e-12.
ExceedsByEps(x, y) ==
  IF y.d = 0 THEN FALSE
  ELSE IF x.d = 0 THEN TRUE
  ELSE IF Narrow(x) /\ Narrow(y) THEN x.n * y.d > y.n * x.d
  ELSE LET w == WideDiff(x, y)
       IN  w.sign = 1 /\ BigLess(w.den, ShiftLimbs(w.mag, EpsLimbs))

(***************************************************************************)
(* The helpers of Simplex.py.                                              *)
(***************************************************************************)
\* A faulty comparison: v <= best_val, so that a later row wins a tie.
BetterOrEqual(v, best_val) == ~RLess(best_val, v)

\* argmin_with_ties, line 23: v < best_val - 1e-12
Better(v, best_val) == ExceedsByEps(best_val, v)

\* argmin_with_ties, the loop over enumerate(zip(values, eligible)) from
\* position i (1-based) on; best_idx is None or Some(0-based index).
RECURSIVE ArgminFrom(_, _, _, _, _)
ArgminFrom(values, eligible, i, best_idx, best_val) ==
  IF i > Len(values) \/ i > Len(eligible) THEN best_idx
  ELSE IF eligible[i] /\ Better(values[i], best_val)
       THEN ArgminFrom(values, eligible, i + 1, Some(i - 1), values[i])
       ELSE ArgminFrom(values, eligible, i + 1, best_idx, best_val)

argmin_with_ties(values, eligible) == ArgminFrom(values, eligible, 1, None, Inf)

\* approx_zero: abs(x) <= eps, eps = 1e-9
approx_zero(x) == Abs(x.n) <= x.d \div ApproxZeroScale

SimplexResult(status, z_opt, x_opt, its, message) ==
  [status |-> status, z_opt |-> z_opt, x_opt |-> x_opt,
   iterations |-> its, message |-> message]

(***************************************************************************)
(* simplex_max: validation (lines 37-52).                                  *)
(***************************************************************************)
\* bi < -1e-12
BelowMinusEps(x) == ExceedsByEps(Zero, x)

\* A faulty validation: the check of the sign of b is missing.
ValidationMessageNoSign(A_, b_, c_) ==
  IF A_ = <<>> \/ A_[1] = <<>> THEN "Matrices vacias."
  ELSE IF \E i \in 1..Len(A_) : Len(A_[i]) # Len(A_[1])
       THEN "Filas de A con distinta longitud."
  ELSE IF Len(b_) # Len(A_) THEN "Dimension de b no coincide con A."
  ELSE IF Len(c_) # Len(A_[1]) THEN "Dimension de c no coincide con A."
  ELSE ""

\* The message of the first failing check, "" when every check passes.
ValidationMessage(A_, b_, c_) ==
  IF A_ = <<>> \/ A_[1] = <<>> THEN "Matrices vacias."
  ELSE IF \E i \in 1..Len(A_) : Len(A_[i]) # Len(A_[1])
       THEN "Filas de A con distinta longitud."
  ELSE IF Len(b_) # Len(A_) THEN "Dimension de b no coincide con A."
  ELSE IF Len(c_) # Len(A_[1]) THEN "Dimension de c no coincide con A."
  ELSE IF \E i \in 1..Len(b_) : BelowMinusEps(b_[i])
       THEN "Este solver asume b >= 0 para base de holguras factible."
  ELSE ""

(***************************************************************************)
(* simplex_max: the initial tableau [A | I | b], [-c | 0 | 0] and basis.   *)
(***************************************************************************)
InitialTableau(A_, b_, c_) ==
  LET m == Len(A_)
      n == Len(A_[1])
  IN  [i \in 1..(m + 1) |->
         [j \in 1..(n + m + 1) |->
            IF i <= m
            THEN IF j <= n THEN A_[i][j]
                 ELSE IF j = n + m + 1 THEN b_[i]
                 ELSE IF j = n + i THEN One ELSE Zero
            ELSE IF j <= n THEN RNeg(c_[j]) ELSE Zero]]

InitialBasis(A_) == [i \in 1..Len(A_) |-> Len(A_[1]) + (i - 1)]

(***************************************************************************)
(* simplex_max: one pass of the while loop (lines 80-125).                 *)
(***************************************************************************)
NumRows(t) == Len(t) - 1

NumCols(t) == Len(t[1])

\* A faulty counter: the increment is missing.
NextIterationsStuck(its) == its

\* line 81, with the model's cap on the counter
NextIterations(its) == IF its < MaxIter THEN its + 1 ELSE its

\* line 84: the 0-based columns j of the objective row with val < -1e-12
EnteringCandidates(t) ==
  {j \in 0..(NumCols(t) - 2) : BelowMinusEps(t[Len(t)][j + 1])}

SetMin(S) == CHOOSE x \in S : \A y \in S : x <= y

\* A faulty eligibility test: col_val != 0.
EligibleNonzero(col_val) == col_val.n # 0

\* line 101: col_val > 1e-12
Eligible(col_val) == ExceedsByEps(col_val, Zero)

\* lines 97-106
Ratios(t, e) ==
  [i \in 1..NumRows(t) |->
     IF Eligible(t[i][e + 1]) THEN RDiv(t[i][NumCols(t)], t[i][e + 1]) ELSE Inf]

Eligibles(t, e) == [i \in 1..NumRows(t) |-> Eligible(t[i][e + 1])]

\* lines 87-90: x of length n, basic original variables read off the RHS;
\* a later row of the basis overwrites an earlier one with the same column
ExtractX(t, bas, n) ==
  [j \in 1..n |->
     IF \E i \in 1..Len(bas) : bas[i] = j - 1
     THEN LET last == CHOOSE i \in 1..Len(bas) :
                        /\ bas[i] = j - 1
                        /\ \A k \in 1..Len(bas) : bas[k] = j - 1 => k <= i
          IN  t[last][NumCols(t)]
     ELSE Zero]

\* lines 114-121: normalise the pivot row, eliminate the entering column from
\* every other row whose factor is not approx_zero
PivotRow(t, l, e) == [j \in 1..NumCols(t) |-> RDiv(t[l + 1][j], t[l + 1][e + 1])]

PivotTableau(t, l, e) ==
  LET prow == PivotRow(t, l, e)
  IN  [i \in 1..Len(t) |->
         IF i = l + 1 THEN prow
         ELSE IF approx_zero(t[i][e + 1]) THEN t[i]
         ELSE [j \in 1..NumCols(t) |-> RSub(t[i][j], RMul(t[i][e + 1], prow[j]))]]

(***************************************************************************)
(* The inputs of the model.                                                *)
(***************************************************************************)
Tiny == R(1, 1073741824)

Big == R(1000000, 1)

BigNext == R(1000001, 1)

I(k) == R(k, 1)

\* Value sets for the entries of the first column of A, of its other
\* columns, of b and of c.  Big and BigNext stay in one column: the rationals
\* of the model do not hold their product with each other.
Families ==
  { [A1set |-> {I(-1), One, I(2)}, Aset |-> {I(-1), One, I(2)},
     bset |-> {I(-1), Zero, I(10)}, cset |-> {I(-1), One, I(2)}],
    [A1set |-> {One, I(2)}, Aset |-> {One, I(2)},
     bset |-> {I(8), I(10)}, cset |-> {I(3), I(5)}],
    [A1set |-> {Zero, One, Tiny}, Aset |-> {Zero, One, Tiny},
     bset |-> {Zero, One}, cset |-> {Zero, One, Tiny}],
    [A1set |-> {Big, BigNext}, Aset |-> {Zero, One},
     bset |-> {One}, cset |-> {One}] }

\* The rows of length n over the value sets of family F.
RowsOf(F, n) == {r \in [1..n -> F.A1set \cup F.Aset] :
                   /\ r[1] \in F.A1set
                   /\ \A j \in 2..n : r[j] \in F.Aset}

Lists(V, maxlen) == UNION {[1..k -> V] : k \in 0..maxlen}

\* The number of entries of the list xs that equal v.
Count(xs, v) == Cardinality({i \in 1..Len(xs) : xs[i] = v})

RECURSIVE SumSeq(_)
SumSeq(ks) == IF ks = <<>> THEN 0 ELSE ks[1] + SumSeq(Tail(ks))

\* The rationals of the model hold Tiny but not its square, so at most one
\* entry of A and c is Tiny.
TinyEntries(inp) ==
  SumSeq([i \in 1..Len(inp[1]) |-> Count(inp[1][i], Tiny)]) + Count(inp[3], Tiny)

\* Well-shaped inputs: A is m x n, b has m entries, c has n entries.
ShapedInputs ==
  { inp \in
      UNION { [1..m -> RowsOf(F, n)] \X [1..m -> F.bset] \X [1..n -> F.cset] :
              <<m, n, F>> \in {s \in (1..MaxM) \X (1..MaxN) \X Families :
                                  s[1] * s[2] <= MaxCells} } :
      TinyEntries(inp) <= 1 }

\* Inputs of any shape, to exercise the validation.
RaggedInputs ==
  (UNION {[1..m -> Lists({One}, MaxN)] : m \in 0..MaxM})
    \X Lists({I(-1), One}, MaxM) \X Lists({One}, MaxN)

\* The state at the call of simplex_max(A, b, c) on an input of the set.
InitOn(inputs) ==
  /\ \E inp \in inputs :
       /\ A = inp[1]
       /\ b = inp[2]
       /\ c = inp[3]
  /\ pc = "start"
  /\ tableau = <<>>
  /\ basis = <<>>
  /\ iterations = 0
  /\ entering = None
  /\ ratios = <<>>
  /\ eligibles = <<>>
  /\ leaving = None
  /\ pivot = None
  /\ result = None
  /\ pivots = 0

Init == InitOn(ShapedInputs \cup RaggedInputs)

(***************************************************************************)
(* The steps of simplex_max.                                               *)
(***************************************************************************)
\* lines 37-52: a failed check returns at once
Reject ==
  /\ pc = "start"
  /\ ValidationMessage(A, b, c) # ""
  /\ result' = Some(SimplexResult("infeasible", None, None, 0,
                                  ValidationMessage(A, b, c)))
  /\ pc' = "done"
  /\ UNCHANGED <<A, b, c, tableau, basis, iterations, entering, ratios,
                 eligibles, leaving, pivot, pivots>>

\* lines 54-78: build the tableau and the basis, iterations = 0
Build ==
  /\ pc = "start"
  /\ ValidationMessage(A, b, c) = ""
  /\ tableau' = InitialTableau(A, b, c)
  /\ basis' = InitialBasis(A)
  /\ iterations' = 0
  /\ pc' = "loop"
  /\ UNCHANGED <<A, b, c, entering, ratios, eligibles, leaving, pivot,
                 result, pivots>>

\* lines 81-92: no entering candidate, return optimal
ReturnOptimal ==
  /\ pc = "loop"
  /\ EnteringCandidates(tableau) = {}
  /\ iterations' = NextIterations(iterations)
  /\ result' = Some(SimplexResult("optimal",
                                  Some(tableau[Len(tableau)][NumCols(tableau)]),
                                  Some(ExtractX(tableau, basis, Len(c))),
                                  iterations', "Optimo encontrado."))
  /\ pc' = "done"
  /\ UNCHANGED <<A, b, c, tableau, basis, entering, ratios, eligibles,
                 leaving, pivot, pivots>>

\* lines 81-111: an entering column without a leaving row, return unbounded
ReturnUnbounded ==
  /\ pc = "loop"
  /\ EnteringCandidates(tableau) # {}
  /\ LET e == SetMin(EnteringCandidates(tableau))
     IN  /\ argmin_with_ties(Ratios(tableau, e), Eligibles(tableau, e)) = None
         /\ entering' = Some(e)
         /\ ratios' = Ratios(tableau, e)
         /\ eligibles' = Eligibles(tableau, e)
  /\ leaving' = None
  /\ iterations' = NextIterations(iterations)
  /\ result' = Some(SimplexResult("unbounded", None, None, iterations',
       "La funcion objetivo puede crecer indefinidamente (no acotado)."))
  /\ pc' = "done"
  /\ UNCHANGED <<A, b, c, tableau, basis, pivot, pivots>>

\* lines 81-124: pivot on (leaving, entering) and update the basis
Pivot ==
  /\ pc = "loop"
  /\ EnteringCandidates(tableau) # {}
  /\ LET e == SetMin(EnteringCandidates(tableau))
         l == argmin_with_ties(Ratios(tableau, e), Eligibles(tableau, e))
     IN  /\ l # None
         /\ entering' = Some(e)
         /\ ratios' = Ratios(tableau, e)
         /\ eligibles' = Eligibles(tableau, e)
         /\ leaving' = l
         /\ pivot' = Some(tableau[l[1] + 1][e + 1])
         /\ tableau' = PivotTableau(tableau, l[1], e)
         /\ basis' = [basis EXCEPT ![l[1] + 1] = e]
  /\ iterations' = NextIterations(iterations)
  /\ pivots' = IF pivots < MaxIter THEN pivots + 1 ELSE pivots
  /\ pc' = "loop"
  /\ UNCHANGED <<A, b, c, result>>

Next == Reject \/ Build \/ ReturnOptimal \/ ReturnUnbounded \/ Pivot

Spec == Init /\ [][Next]_vars

(***************************************************************************)
(* Properties.                                                             *)
(***************************************************************************)
Done == pc = "done"

Res == result[1]

Returned(status) == Done /\ result # None /\ Res.status = status

\* x >= -1e-12
AtLeastMinusEps(x) == ~ExceedsByEps(Zero, x)

\* x <= y + 1e-12
AtMostPlusEps(x, y) == ~ExceedsByEps(x, y)

RECURSIVE DotFrom(_, _, _)
DotFrom(u, v, i) ==
  IF i > Len(u) THEN Zero ELSE RAdd(RMul(u[i], v[i]), DotFrom(u, v, i + 1))

Dot(u, v) == DotFrom(u, v, 1)

LoopPass == pc = "loop" /\ pc' \in {"loop", "done"}

PivotStep == pc = "loop" /\ pc' = "loop"

\* C1: an input that violates a validation check (A empty or its first row
\* empty, rows of A of differing length, len(b) != m, len(c) != n, some
\* b[i] < -1e-12) is answered with a non-optimal status, iterations = 0,
\* z_opt and x_opt absent, and neither the tableau nor the basis is ever
\* built nor the pivot loop entered.
C1_ViolatesCheck ==
  \/ A = <<>>
  \/ A[1] = <<>>
  \/ \E i \in 1..Len(A) : Len(A[i]) # Len(A[1])
  \/ Len(b) # Len(A)
  \/ Len(c) # Len(A[1])
  \/ \E i \in 1..Len(b) : ExceedsByEps(Zero, b[i])

C1_InvalidInputRejected ==
  C1_ViolatesCheck =>
    /\ pc \in {"start", "done"}
    /\ tableau = <<>>
    /\ basis = <<>>
    /\ iterations = 0
    /\ pivots = 0
    /\ Done => /\ result # None
               /\ Res.status # "optimal"
               /\ Res.iterations = 0
               /\ Res.z_opt = None
               /\ Res.x_opt = None

C1_Witness ==
  /\ Done
  /\ C1_ViolatesCheck
  /\ A # <<>>
  /\ Len(b) = Len(A)
  /\ \E i \in 1..Len(b) : ExceedsByEps(Zero, b[i])
  /\ Res.status = "infeasible"

\* C2: for every input that passes validation the loop terminates after
\* finitely many pivots, with no repeated selection of the same entering
\* column without progress.  A pass of the loop is a function of the tableau
\* and the basis, so a terminating loop never makes a pivot that leaves both
\* as they were.
C2_EveryPivotMakesProgress ==
  [][PivotStep => <<tableau', basis'>> # <<tableau, basis>>]_vars

\* C3: when the status is optimal the returned point is primal feasible:
\* every x*[j] >= -1e-12 and every (A x*)[i] <= b[i] + 1e-12.
C3_OptimalPointFeasible ==
  Returned("optimal") =>
    LET x == Res.x_opt[1]
    IN  /\ \A j \in 1..Len(x) : AtLeastMinusEps(x[j])
        /\ \A i \in 1..Len(A) : AtMostPlusEps(Dot(A[i], x), b[i])

\* C4: when the status is optimal every non-RHS entry of the final objective
\* row is >= -1e-12 and the returned z* equals c . x* within 1e-12.
C4_OptimalityCertificate ==
  Returned("optimal") =>
    LET x == Res.x_opt[1]
        z == Res.z_opt[1]
        zrow == tableau[Len(tableau)]
    IN  /\ \A j \in 1..(Len(zrow) - 1) : AtLeastMinusEps(zrow[j])
        /\ AtMostPlusEps(z, Dot(c, x))
        /\ AtMostPlusEps(Dot(c, x), z)

\* C5 as claimed: the returned iteration count equals the number of pivots
\* executed during the call.
C5_IterationsEqualPivots ==
  (Returned("optimal") \/ Returned("unbounded")) => Res.iterations = pivots

\* C5 as amended: the returned iteration count is the number of passes of the
\* loop, the returning pass included: the number of pivots executed plus one.
C5_IterationsArePivotsPlusOne ==
  (Returned("optimal") \/ Returned("unbounded")) => Res.iterations = pivots + 1

C5_Witness ==
  /\ Returned("unbounded")
  /\ A = << <<One, I(-1)>> >>
  /\ b = <<I(10)>>
  /\ c = <<One, One>>
  /\ pivots = 1
  /\ Res.iterations = 2

\* C6: in a pass whose entering column has entries <= 1e-12 in every
\* constraint row the call returns unbounded with z_opt and x_opt absent and
\* leaves the tableau and the basis as they were; and a pivot is executed only
\* on an entry tableau[leaving][entering] > 1e-12.
C6_UnboundedDetection ==
  [][ (LoopPass /\ EnteringCandidates(tableau) # {}) =>
        LET e == SetMin(EnteringCandidates(tableau))
        IN  /\ (\A i \in 1..NumRows(tableau) :
                   ~ExceedsByEps(tableau[i][e + 1], Zero))
                 => /\ pc' = "done"
                    /\ result'[1].status = "unbounded"
                    /\ result'[1].z_opt = None
                    /\ result'[1].x_opt = None
                    /\ tableau' = tableau
                    /\ basis' = basis
            /\ PivotStep
                 => /\ entering' = Some(e)
                    /\ leaving' # None
                    /\ ExceedsByEps(tableau[leaving'[1] + 1][e + 1], Zero)
                    /\ pivot' = Some(tableau[leaving'[1] + 1][e + 1]) ]_vars

C6_Witness ==
  /\ Returned("unbounded")
  /\ pivots >= 1
  /\ ExceedsByEps(pivot[1], Zero)
  /\ \A i \in 1..NumRows(tableau) : ~ExceedsByEps(tableau[i][entering[1] + 1], Zero)
  /\ \E i \in 1..NumRows(tableau) : RLess(tableau[i][entering[1] + 1], Zero)

\* C7: in the initial tableau and after every pivot, for each constraint row
\* i the column basis[i] is a unit vector over all m + 1 rows: 1 in row i and
\* 0 in every other constraint row and in the objective row.
C7_BasisColumnsUnit ==
  tableau # <<>> =>
    \A i \in 1..Len(basis) : \A r \in 1..Len(tableau) :
      tableau[r][basis[i] + 1] = IF r = i THEN One ELSE Zero

\* The ratio RHS(i) / tableau[i][e] of the 0-based row i in tableau t.
RatioOf(t, i, e) == RDiv(t[i + 1][NumCols(t)], t[i + 1][e + 1])

EligibleRows(t, e) ==
  {i \in 0..(NumRows(t) - 1) : ExceedsByEps(t[i + 1][e + 1], Zero)}

C9_BasisWellFormed ==
  [][ /\ tableau' # <<>> =>
           /\ Len(basis') = Len(A)
           /\ \A i \in 1..Len(basis') : basis'[i] \in 0..(Len(A[1]) + Len(A) - 1)
           /\ \A i, k \in 1..Len(basis') : i # k => basis'[i] # basis'[k]
      /\ PivotStep =>
           /\ \A i \in 1..Len(basis) : i # leaving'[1] + 1 => basis'[i] = basis[i]
           /\ basis'[leaving'[1] + 1] = entering'[1]
           /\ \A i \in 1..Len(basis) : basis[i] # entering'[1] ]_vars

\* C10: the objective value held in the RHS entry of the objective row starts
\* at 0 and never decreases from one pivot to the next, and the RHS entry of
\* every constraint row stays >= -1e-12.
ObjectiveValue(t) == t[Len(t)][NumCols(t)]

C10_ObjectiveMonotone ==
  [][ /\ (pc = "start" /\ pc' = "loop") =>
           /\ ObjectiveValue(tableau') = Zero
           /\ \A i \in 1..NumRows(tableau') :
                AtLeastMinusEps(tableau'[i][NumCols(tableau')])
      /\ PivotStep =>
           /\ ~RLess(ObjectiveValue(tableau'), ObjectiveValue(tableau))
           /\ \A i \in 1..NumRows(tableau') :
                AtLeastMinusEps(tableau'[i][NumCols(tableau')]) ]_vars

====
